---- MODULE Spec2Model ----
(***************************************************************************)
(* Model of the address-space accounting code of netbox/ipam/views.py:     *)
(* add_available_prefixes and add_available_ipaddresses, together with the *)
(* views that feed them.  Networks and addresses are netaddr values; the   *)
(* model keeps their integer values and restricts them to a small block of *)
(* each family, starting at 10.0.0.0 and at 2001:db8::.  An IPv4 value is   *)
(* the integer of the address, an IPv6 value is the low 32 bits of an      *)
(* address of 2001:db8::/96.                                               *)
(***************************************************************************)
EXTENDS Integers, Sequences, FiniteSets, TLC

VARIABLES
    pc,              \* position of the request being served
    parent,          \* add_available_prefixes: parent network
    prefix_list,     \* add_available_prefixes: child Prefix records passed in
    result,          \* add_available_prefixes: returned list
    prefix,          \* add_available_ipaddresses: prefix network
    is_pool,         \* add_available_ipaddresses: pool flag
    ipaddress_list,  \* add_available_ipaddresses: IPAddress records passed in
    output,          \* add_available_ipaddresses: returned list
    raised,          \* exception a direct call ended with
    family,          \* alter_queryset: address family of the request
    aggregates,      \* alter_queryset: Aggregate rows of the RIR
    prefixes,        \* alter_queryset: Prefix rows
    stats,           \* alter_queryset: the stats dict of the RIR being processed
    rir,             \* alter_queryset: the RIR object of the queryset
    rirs,            \* alter_queryset: returned list
    db,              \* forms: the database tables the form reads and writes
    cleaned_data,    \* forms: cleaned_data of the form being processed
    errors,          \* forms: the fields the form has added an error to
    obj              \* forms: the object returned by clean or save

vars == <<pc, parent, prefix_list, result, prefix, is_pool, ipaddress_list, output,
          raised, family, aggregates, prefixes, stats, rir, rirs,
          db, cleaned_data, errors, obj>>

prefixVars == <<parent, prefix_list, result>>
ipVars == <<prefix, is_pool, ipaddress_list, output>>
rirVars == <<family, aggregates, prefixes, stats, rir, rirs>>
formVars == <<db, cleaned_data, errors, obj>>

(* ------------------------------ bounds --------------------------------- *)

\* number of host bits of the largest parent network of add_available_prefixes
HostBits == 2
\* number of host bits of the largest prefix of add_available_ipaddresses
IPHostBits == 3
\* largest number of child prefixes handed to add_available_prefixes
MaxChildren == 3
\* largest number of IP addresses handed to add_available_ipaddresses
MaxIPs == 3
\* an aggregate of the RIR list holds at most 2^RIRHostBits units
\* (addresses for IPv4, /64s for IPv6)
RIRHostBits == 1
\* largest number of Aggregate rows of the RIR
MaxAggregates == 1
\* largest number of Prefix rows
MaxRIRPrefixes == 2
\* largest total size of the RIR whose percentages are calculated on their own
MaxTotal == 7
\* number of host bits of the largest network handed to a direct call
DirectHostBits == 1
\* largest number of records handed to a direct call
MaxDirectRecords == 2
\* number of devices in the database; each has one interface
MaxDevices == 2
\* number of IP addresses IPAddressForm edits
MaxAddresses == 1
\* largest number of records of one import
MaxRecords == 2
\* number of ports of each kind (console ports, console server ports, ...)
MaxPorts == 2

(* --------------------------- netaddr values ---------------------------- *)

\* pk of a model instance that was never saved (Prefix(prefix=p))
None == 0

\* 10.0.0.0 as an integer
V4Base == 167772160
\* the low 32 bits of 2001:db8::
V6Base == 0

RECURSIVE Pow2(_)
Pow2(n) == IF n = 0 THEN 1 ELSE 2 * Pow2(n - 1)

\* netaddr: width of an address of the family
Width(version) == IF version = 4 THEN 32 ELSE 128

Base(version) == IF version = 4 THEN V4Base ELSE V6Base

\* IPNetwork.size
Size(net) == Pow2(Width(net.version) - net.prefixlen)

\* IPNetwork.first
First(net) == net.first

\* IPNetwork.last
LastAddr(net) == net.first + Size(net) - 1

\* canonical (host bits zero) IPNetwork values of at most h host bits
NetworksOf(h) ==
    { [version |-> v, first |-> Base(v) + k * Pow2(Width(v) - l), prefixlen |-> l] :
        <<v, l, k>> \in { t \in {4, 6} \X (0 .. 128) \X (0 .. Pow2(h) - 1) :
                            /\ t[2] >= Width(t[1]) - h
                            /\ t[2] <= Width(t[1])
                            /\ t[3] < Pow2(t[2] - (Width(t[1]) - h)) } }

\* the networks add_available_prefixes is run on
Networks == NetworksOf(HostBits)

\* the prefixes add_available_ipaddresses is run on
IPNetworks == NetworksOf(IPHostBits)

\* netaddr.IPSet(network): the set of addresses of a network
IPSetOf(net) == { <<net.version, a>> : a \in First(net) .. LastAddr(net) }

\* netaddr.IPSet(list of networks): the union of their addresses
IPSet(nets) == UNION { IPSetOf(n) : n \in nets }

\* IPSet.__or__ in place of __xor__
IPSetXor_union(a, b) == a \cup b

\* IPSet.__and__ in place of __xor__
IPSetXor_and(a, b) == a \cap b

\* IPSet.__xor__: symmetric difference
IPSetXor(a, b) == (a \ b) \cup (b \ a)

\* the network one bit shorter that contains net (IPNetwork.supernet)
Supernet(net) ==
    LET l == net.prefixlen - 1
        sz == Pow2(Width(net.version) - l)
    IN  [version |-> net.version, first |-> net.first - (net.first % sz), prefixlen |-> l]

\* IPNetwork.key() in place of sort_key(): (version, first, last)
sort_key_key(net) == <<net.version, net.first, net.first + Size(net) - 1, 0>>

\* IPNetwork.sort_key(): (version, first, prefixlen - 1, host bits)
sort_key(net) == <<net.version, net.first, net.prefixlen - 1, 0>>

\* tuple comparison of two sort keys
KeyLess(a, b) ==
    \E i \in 1 .. 4 : /\ a[i] < b[i]
                      /\ \A j \in 1 .. (i - 1) : a[j] = b[j]

\* BaseIP.__lt__
NetLess(m, n) == KeyLess(sort_key(m), sort_key(n))

\* a set of networks as the ascending list
RECURSIVE SortedNets(_)
SortedNets(S) ==
    IF S = {} THEN <<>>
    ELSE LET m == CHOOSE x \in S : \A y \in S \ {x} : NetLess(x, y)
         IN  <<m>> \o SortedNets(S \ {m})

\* iter_cidrs without merging: one block per address
iter_cidrs_hosts(S) ==
    SortedNets({ n \in Networks : n.prefixlen = Width(n.version) /\ IPSetOf(n) \subseteq S })

\* IPSet.iter_cidrs(): the largest aligned blocks lying in the set, ascending
iter_cidrs(S) ==
    SortedNets({ n \in Networks :
                   /\ IPSetOf(n) \subseteq S
                   /\ \/ n.prefixlen = 0
                      \/ ~ (IPSetOf(Supernet(n)) \subseteq S) })

(* ---------------------- add_available_prefixes ------------------------- *)

Range(s) == { s[i] : i \in DOMAIN s }

\* Prefix(prefix=p): an unsaved Prefix record
NewPrefix(p) == [pk |-> None, prefix |-> p]

\* list.sort(key=lambda p: p.prefix): stable, ascending
RECURSIVE SortByPrefix(_)
SortByPrefix(s) ==
    IF s = <<>> THEN <<>>
    ELSE LET init == SortByPrefix(SubSeq(s, 1, Len(s) - 1))
             x == s[Len(s)]
             k == Cardinality({ i \in DOMAIN init : ~ NetLess(x.prefix, init[i].prefix) })
         IN  SubSeq(init, 1, k) \o <<x>> \o SubSeq(init, k + 1, Len(init))

\* the unallocated space computed from the saved records only
available_prefixes_saved(par, plist) ==
    LET cidrs == iter_cidrs(IPSetXor(IPSetOf(par),
                     IPSet({ p.prefix : p \in { q \in Range(plist) : q.pk # None } })))
    IN  [i \in DOMAIN cidrs |-> NewPrefix(cidrs[i])]

\* the unallocated space of the parent as unsaved Prefix records
available_prefixes(par, plist) ==
    LET cidrs == iter_cidrs(IPSetXor(IPSetOf(par), IPSet({ p.prefix : p \in Range(plist) })))
    IN  [i \in DOMAIN cidrs |-> NewPrefix(cidrs[i])]

\* children with a network already in the list are dropped before sorting
add_available_prefixes_dedup(par, plist) ==
    LET firsts == SelectSeq([i \in DOMAIN plist |-> <<i, plist[i]>>],
                      LAMBDA e : \A j \in 1 .. (e[1] - 1) : plist[j].prefix # e[2].prefix)
    IN  SortByPrefix([i \in DOMAIN firsts |-> firsts[i][2]] \o available_prefixes(par, plist))

\* add_available_prefixes(parent, prefix_list)
add_available_prefixes(par, plist) ==
    SortByPrefix(plist \o available_prefixes(par, plist))

\* prefix__net_contained_or_equal
net_contained_or_equal(n, par) ==
    /\ n.version = par.version
    /\ n.prefixlen >= par.prefixlen
    /\ First(par) <= First(n)
    /\ LastAddr(n) <= LastAddr(par)

\* no exception: the call returned
NoException == "none"

\* no form is being processed
FormIdle ==
    /\ db = <<>>
    /\ cleaned_data = <<>>
    /\ errors = {}
    /\ obj = None

\* the RIR list is not being served
RIRIdle ==
    /\ family = 4
    /\ aggregates = <<>>
    /\ prefixes = <<>>
    /\ stats = [total |-> 0, active |-> 0, reserved |-> 0, deprecated |-> 0,
                 available |-> 0]
    /\ rir = [pk |-> 1]
    /\ rirs = <<>>

InitPrefixes ==
    /\ pc = "start"
    /\ FormIdle
    /\ parent \in Networks
    /\ prefix_list = <<>>
    /\ result = <<>>
    /\ prefix = [version |-> 4, first |-> V4Base, prefixlen |-> 32]
    /\ is_pool = FALSE
    /\ ipaddress_list = <<>>
    /\ output = <<>>
    /\ raised = NoException
    /\ RIRIdle

\* one more Prefix record of the queryset of children of the parent
ChildPrefix(n) ==
    /\ pc = "start"
    /\ Len(prefix_list) < MaxChildren
    /\ net_contained_or_equal(n, parent)
    /\ prefix_list' = Append(prefix_list, [pk |-> Len(prefix_list) + 1, prefix |-> n])
    /\ UNCHANGED <<formVars, pc, parent, result, ipVars, raised, rirVars>>

\* the view calls add_available_prefixes on the queryset
CallAddAvailablePrefixes ==
    /\ pc = "start"
    /\ result' = add_available_prefixes(parent, prefix_list)
    /\ pc' = "done"
    /\ UNCHANGED <<formVars, parent, prefix_list, ipVars, raised, rirVars>>

\* add_available_prefixes is run again on the list it returned
RerunAddAvailablePrefixes ==
    /\ pc = "done"
    /\ prefix_list' = result
    /\ result' = add_available_prefixes(parent, result)
    /\ pc' = "rerun"
    /\ UNCHANGED <<formVars, parent, ipVars, raised, rirVars>>

NextPrefixes ==
    \/ \E n \in Networks : ChildPrefix(n)
    \/ CallAddAvailablePrefixes
    \/ RerunAddAvailablePrefixes

Spec == InitPrefixes /\ [][NextPrefixes]_vars

(* --------------------- add_available_ipaddresses ----------------------- *)

\* netaddr.IPAddress.__lt__ on two addresses of one family
IPLess(a, b) == a < b

\* str(netaddr.IPAddress): the groups of the printed address (four octets,
\* eight 16-bit groups; an IPv6 value is the low part of 2001:db8::/96)
FormatIP(version, value) ==
    IF version = 4
    THEN <<(value \div 16777216) % 256, (value \div 65536) % 256,
           (value \div 256) % 256, value % 256>>
    ELSE <<8193, 3512, 0, 0, 0, 0, (value \div 65536) % 65536, value % 65536>>

\* '{}/{}'.format(ip, prefix.prefixlen)
FormatSkipped(version, value, prefixlen) == <<FormatIP(version, value), prefixlen>>

\* the tuple (skipped_count, first_skipped) appended to the output
Skipped(count, version, value, prefixlen) ==
    [count |-> count, first_skipped |-> FormatSkipped(version, value, prefixlen)]

\* the network and broadcast addresses are left out (condition of line 52)
IgnoreEnds_31(pfx, pool) == pfx.version = 4 /\ pfx.prefixlen <= 31 /\ ~ pool

IgnoreEnds(pfx, pool) == pfx.version = 4 /\ pfx.prefixlen < 31 /\ ~ pool

first_ip_in_prefix(pfx, pool) ==
    IF IgnoreEnds(pfx, pool) THEN First(pfx) + 1 ELSE First(pfx)

\* the last address is kept although the first one is left out
last_ip_in_prefix_kept(pfx, pool) == LastAddr(pfx)

last_ip_in_prefix(pfx, pool) ==
    IF IgnoreEnds(pfx, pool) THEN LastAddr(pfx) - 1 ELSE LastAddr(pfx)

\* the count of the whole range without the + 1
EmptyListOutput_short(pfx, pool) ==
    <<Skipped(last_ip_in_prefix(pfx, pool) - first_ip_in_prefix(pfx, pool),
              pfx.version, first_ip_in_prefix(pfx, pool), pfx.prefixlen)>>

\* the list returned when ipaddress_list is empty
EmptyListOutput(pfx, pool) ==
    <<Skipped(last_ip_in_prefix(pfx, pool) - first_ip_in_prefix(pfx, pool) + 1,
              pfx.version, first_ip_in_prefix(pfx, pool), pfx.prefixlen)>>

\* the leading range counted up to and including the first real IP
LeadingEntries_incl(pfx, pool, ips) ==
    IF IPLess(first_ip_in_prefix(pfx, pool), ips[1].address.ip)
    THEN <<Skipped(ips[1].address.ip - first_ip_in_prefix(pfx, pool) + 1,
                   pfx.version, first_ip_in_prefix(pfx, pool), pfx.prefixlen)>>
    ELSE <<>>

\* available IPs before the first real IP
LeadingEntries(pfx, pool, ips) ==
    IF IPLess(first_ip_in_prefix(pfx, pool), ips[1].address.ip)
    THEN <<Skipped(ips[1].address.ip - first_ip_in_prefix(pfx, pool),
                   pfx.version, first_ip_in_prefix(pfx, pool), pfx.prefixlen)>>
    ELSE <<>>

\* the free range between two IPs counted with both of its ends
LoopEntries_diff(pfx, ips, i) ==
    LET diff == IF i > 1 THEN ips[i].address.ip - ips[i - 1].address.ip ELSE 0
    IN  (IF i > 1 /\ diff > 1
         THEN <<Skipped(diff, pfx.version, ips[i - 1].address.ip + 1, pfx.prefixlen)>>
         ELSE <<>>) \o <<ips[i]>>

\* a pass of the loop that leaves out an IP equal to the previous one
LoopEntries_skipdup(pfx, ips, i) ==
    LET diff == IF i > 1 THEN ips[i].address.ip - ips[i - 1].address.ip ELSE 0
    IN  (IF i > 1 /\ diff > 1
         THEN <<Skipped(diff - 1, pfx.version, ips[i - 1].address.ip + 1, pfx.prefixlen)>>
         ELSE <<>>) \o (IF i > 1 /\ diff = 0 THEN <<>> ELSE <<ips[i]>>)

\* one pass of the loop over ipaddress_list: the free range before ips[i],
\* then ips[i] itself
LoopEntries(pfx, ips, i) ==
    LET diff == IF i > 1 THEN ips[i].address.ip - ips[i - 1].address.ip ELSE 0
    IN  (IF i > 1 /\ diff > 1
         THEN <<Skipped(diff - 1, pfx.version, ips[i - 1].address.ip + 1, pfx.prefixlen)>>
         ELSE <<>>) \o <<ips[i]>>

RECURSIVE Loop(_, _, _)
Loop(pfx, ips, i) ==
    IF i > Len(ips) THEN <<>> ELSE LoopEntries(pfx, ips, i) \o Loop(pfx, ips, i + 1)

\* the trailing range also emitted when the last real IP is the last usable one
TrailingEntries_le(pfx, pool, ips) ==
    LET prev_ip == ips[Len(ips)]
    IN  IF ~ IPLess(last_ip_in_prefix(pfx, pool), prev_ip.address.ip)
        THEN <<Skipped(last_ip_in_prefix(pfx, pool) - prev_ip.address.ip,
                       pfx.version, prev_ip.address.ip + 1, pfx.prefixlen)>>
        ELSE <<>>

\* the trailing range starting at the last real IP itself
TrailingEntries_start(pfx, pool, ips) ==
    LET prev_ip == ips[Len(ips)]
    IN  IF IPLess(prev_ip.address.ip, last_ip_in_prefix(pfx, pool))
        THEN <<Skipped(last_ip_in_prefix(pfx, pool) - prev_ip.address.ip,
                       pfx.version, prev_ip.address.ip, pfx.prefixlen)>>
        ELSE <<>>

\* remaining available IPs after the last real IP
TrailingEntries(pfx, pool, ips) ==
    LET prev_ip == ips[Len(ips)]
    IN  IF IPLess(prev_ip.address.ip, last_ip_in_prefix(pfx, pool))
        THEN <<Skipped(last_ip_in_prefix(pfx, pool) - prev_ip.address.ip,
                       pfx.version, prev_ip.address.ip + 1, pfx.prefixlen)>>
        ELSE <<>>

\* add_available_ipaddresses(prefix, ipaddress_list, is_pool)
add_available_ipaddresses(pfx, ips, pool) ==
    IF ips = <<>>
    THEN EmptyListOutput(pfx, pool)
    ELSE LeadingEntries(pfx, pool, ips) \o Loop(pfx, ips, 1) \o TrailingEntries(pfx, pool, ips)

\* address__net_host_contained
net_host_contained(version, value, pfx) ==
    /\ version = pfx.version
    /\ First(pfx) <= value
    /\ value <= LastAddr(pfx)

InitIPs ==
    /\ pc = "ipstart"
    /\ FormIdle
    /\ prefix \in IPNetworks
    /\ is_pool \in BOOLEAN
    /\ ipaddress_list = <<>>
    /\ output = <<>>
    /\ parent = [version |-> 4, first |-> V4Base, prefixlen |-> 32]
    /\ prefix_list = <<>>
    /\ result = <<>>
    /\ raised = NoException
    /\ RIRIdle

\* one more IPAddress record of the queryset of the prefix, which is read in
\* ascending order of address
AllocatedIP(value, masklen) ==
    /\ pc = "ipstart"
    /\ Len(ipaddress_list) < MaxIPs
    /\ net_host_contained(prefix.version, value, prefix)
    /\ ipaddress_list # <<>> => ipaddress_list[Len(ipaddress_list)].address.ip <= value
    /\ ipaddress_list' = Append(ipaddress_list,
           [pk |-> Len(ipaddress_list) + 1,
            address |-> [version |-> prefix.version, ip |-> value, prefixlen |-> masklen]])
    /\ UNCHANGED <<formVars, pc, prefix, is_pool, output, prefixVars, raised, rirVars>>

\* the view calls add_available_ipaddresses on the queryset
CallAddAvailableIPAddresses ==
    /\ pc = "ipstart"
    /\ output' = add_available_ipaddresses(prefix, ipaddress_list, is_pool)
    /\ pc' = "ipdone"
    /\ UNCHANGED <<formVars, prefix, is_pool, ipaddress_list, prefixVars, raised, rirVars>>

NextIPs ==
    \/ \E value \in First(prefix) .. LastAddr(prefix) :
           \E masklen \in {prefix.prefixlen, Width(prefix.version)} :
               AllocatedIP(value, masklen)
    \/ CallAddAvailableIPAddresses

SpecIPs == InitIPs /\ [][NextIPs]_vars

(* -------- direct calls of the two functions, outside the views --------- *)

\* IPNetwork values as a caller can build them: the address part may have
\* host bits set (netaddr.IPNetwork('10.0.0.1/31')); first holds that address
SuppliedNetworks ==
    { [version |-> n.version, first |-> n.first + hb, prefixlen |-> n.prefixlen] :
        <<n, hb>> \in { t \in NetworksOf(DirectHostBits) \X (0 .. Pow2(DirectHostBits) - 1) :
                          t[2] < Size(t[1]) } }

\* IPNetwork.cidr: the network with the host bits cleared.  IPSet(network),
\* IPNetwork.first and IPNetwork.last are those of the cidr.
cidr(net) ==
    [version |-> net.version, first |-> net.first - (net.first % Size(net)),
     prefixlen |-> net.prefixlen]

\* the same network is handed to either function
InitDirect ==
    /\ pc = "direct"
    /\ FormIdle
    /\ parent \in SuppliedNetworks
    /\ prefix = parent
    /\ is_pool \in BOOLEAN
    /\ prefix_list = <<>>
    /\ result = <<>>
    /\ ipaddress_list = <<>>
    /\ output = <<>>
    /\ raised = NoException
    /\ RIRIdle

\* one more Prefix record of the list of the caller, of either family
DirectChild(n) ==
    /\ pc = "direct"
    /\ ipaddress_list = <<>>
    /\ Len(prefix_list) < MaxDirectRecords
    /\ prefix_list' = Append(prefix_list, [pk |-> Len(prefix_list) + 1, prefix |-> n])
    /\ UNCHANGED <<formVars, pc, parent, result, ipVars, raised, rirVars>>

\* one more IPAddress record of the list of the caller, in ascending order
DirectIP(value, masklen) ==
    /\ pc = "direct"
    /\ prefix_list = <<>>
    /\ Len(ipaddress_list) < MaxDirectRecords
    /\ net_host_contained(prefix.version, value, cidr(prefix))
    /\ ipaddress_list # <<>> => ipaddress_list[Len(ipaddress_list)].address.ip <= value
    /\ ipaddress_list' = Append(ipaddress_list,
           [pk |-> Len(ipaddress_list) + 1,
            address |-> [version |-> prefix.version, ip |-> value, prefixlen |-> masklen]])
    /\ UNCHANGED <<formVars, pc, prefix, is_pool, output, prefixVars, raised, rirVars>>

\* add_available_prefixes(parent, prefix_list): no statement of lines 26-39
\* raises, and IPSet takes networks of both families and with host bits
DirectAddAvailablePrefixes ==
    /\ pc = "direct"
    /\ ipaddress_list = <<>>
    /\ result' = add_available_prefixes(cidr(parent), prefix_list)
    /\ raised' = NoException
    /\ pc' = "returned"
    /\ UNCHANGED <<formVars, parent, prefix_list, ipVars, rirVars>>

\* add_available_ipaddresses(prefix, ipaddress_list, is_pool): the function
\* reads prefix.version, prefix.prefixlen, prefix.first and prefix.last
DirectAddAvailableIPAddresses ==
    /\ pc = "direct"
    /\ prefix_list = <<>>
    /\ output' = add_available_ipaddresses(cidr(prefix), ipaddress_list, is_pool)
    /\ raised' = NoException
    /\ pc' = "ipreturned"
    /\ UNCHANGED <<formVars, prefix, is_pool, ipaddress_list, prefixVars, rirVars>>

NextDirect ==
    \/ \E n \in NetworksOf(DirectHostBits) : DirectChild(n)
    \/ \E value \in First(cidr(prefix)) .. LastAddr(cidr(prefix)) :
           \E masklen \in {prefix.prefixlen, Width(prefix.version)} :
               DirectIP(value, masklen)
    \/ DirectAddAvailablePrefixes
    \/ DirectAddAvailableIPAddresses

SpecDirect == InitDirect /\ [][NextDirect]_vars

(* ------------------ Python float (IEEE 754 double) values -------------- *)

\* A float is kept exactly: neg is its sign and mag its magnitude in units of
\* 2^-59 (the spacing of the doubles next to 0.01), as three limbs base 2^24,
\* most significant first.  Every value the percentages take is a multiple
\* of that unit below 2^70 units.
LimbBase == 16777216

\* number of significant bits of a double
MantissaBits == 53

RECURSIVE BitLen(_)
BitLen(n) == IF n = 0 THEN 0 ELSE 1 + BitLen(n \div 2)

MagBitLen(x) ==
    IF x[1] > 0 THEN 48 + BitLen(x[1])
    ELSE IF x[2] > 0 THEN 24 + BitLen(x[2])
    ELSE BitLen(x[3])

MagLess(x, y) ==
    \/ x[1] < y[1]
    \/ x[1] = y[1] /\ x[2] < y[2]
    \/ x[1] = y[1] /\ x[2] = y[2] /\ x[3] < y[3]

MagAdd(x, y) ==
    LET s0 == x[3] + y[3]
        s1 == x[2] + y[2] + (s0 \div LimbBase)
        s2 == x[1] + y[1] + (s1 \div LimbBase)
    IN  <<s2, s1 % LimbBase, s0 % LimbBase>>

\* x - y for y <= x
MagSub(x, y) ==
    LET d0 == x[3] - y[3]
        b0 == IF d0 < 0 THEN 1 ELSE 0
        d1 == x[2] - y[2] - b0
        b1 == IF d1 < 0 THEN 1 ELSE 0
    IN  <<x[1] - y[1] - b1, d1 + b1 * LimbBase, d0 + b0 * LimbBase>>

\* round to nearest, ties to even, the magnitude x + r/d (0 <= r < d) to a
\* value of MantissaBits significant bits
RoundMag(x, r, d) ==
    LET drop == MagBitLen(x) - MantissaBits
    IN  IF drop <= 0
        THEN IF 2 * r > d \/ (2 * r = d /\ x[3] % 2 = 1)
             THEN MagAdd(x, <<0, 0, 1>>)
             ELSE x
        ELSE LET p == Pow2(drop)
                 rem == x[3] % p
                 kept == <<x[1], x[2], x[3] - rem>>
                 up == \/ 2 * rem > p
                       \/ 2 * rem = p /\ (r > 0 \/ (x[3] \div p) % 2 = 1)
             IN  IF up THEN MagAdd(kept, <<0, 0, p>>) ELSE kept

FloatZero == [neg |-> FALSE, mag |-> <<0, 0, 0>>]

FloatNeg(a) == IF a.mag = <<0, 0, 0>> THEN a ELSE [neg |-> ~ a.neg, mag |-> a.mag]

\* float.__add__
FloatAdd(a, b) ==
    IF a.neg = b.neg
    THEN [neg |-> a.neg, mag |-> RoundMag(MagAdd(a.mag, b.mag), 0, 1)]
    ELSE IF a.mag = b.mag THEN FloatZero
    ELSE IF MagLess(a.mag, b.mag)
         THEN [neg |-> b.neg, mag |-> RoundMag(MagSub(b.mag, a.mag), 0, 1)]
         ELSE [neg |-> a.neg, mag |-> RoundMag(MagSub(a.mag, b.mag), 0, 1)]

\* float.__sub__
FloatSub(a, b) == FloatAdd(a, FloatNeg(b))

\* float('k/100' written with two decimals): the double nearest to k / 100
FloatOfHundredths(k) ==
    LET q2 == (k * 2048) \div 100
        c1 == ((k * 2048) % 100) * LimbBase
        q1 == c1 \div 100
        c0 == (c1 % 100) * LimbBase
        q0 == c0 \div 100
    IN  [neg |-> FALSE, mag |-> RoundMag(<<q2, q1, q0>>, c0 % 100, 100)]

\* the int 100 of line 216 as a float
Float100 == FloatOfHundredths(10000)

(* ---------------------- RIRListView.alter_queryset --------------------- *)

\* Prefix.status values; containers are not counted
PREFIX_STATUS_CONTAINER == 0
PREFIX_STATUS_ACTIVE == 1
PREFIX_STATUS_RESERVED == 2
PREFIX_STATUS_DEPRECATED == 3

PrefixStatuses ==
    {PREFIX_STATUS_CONTAINER, PREFIX_STATUS_ACTIVE, PREFIX_STATUS_RESERVED,
     PREFIX_STATUS_DEPRECATED}

\* log2 of denominator: 1 for IPv4, 2 ** 64 for IPv6
DenominatorBits(fam) == IF fam = 6 THEN 64 ELSE 0

\* The networks of the RIR list are multiples of denominator addresses: an
\* IPv6 network is a /64 or shorter.  first is the network address divided by
\* denominator, so that every size / denominator is an int in Python 2 and a
\* float of the same value in Python 3.
RIRNetworksOf(v, h) ==
    LET top == Width(v) - DenominatorBits(v)
    IN  { [version |-> v, first |-> Base(v) + k * Pow2(top - l), prefixlen |-> l] :
            <<l, k>> \in { t \in ((top - h) .. top) \X (0 .. Pow2(h) - 1) :
                             t[2] < Pow2(t[1] - (top - h)) } }

RIRNetworks4 == RIRNetworksOf(4, RIRHostBits)
RIRNetworks6 == RIRNetworksOf(6, RIRHostBits)

\* the networks of one family the RIR list is run on
RIRNetworks(v) == IF v = 4 THEN RIRNetworks4 ELSE RIRNetworks6

\* IPNetwork.size / denominator
UnitSize(net) == Pow2(Width(net.version) - DenominatorBits(net.version) - net.prefixlen)

\* the blocks of denominator addresses of a network
UnitSet(net) == { <<net.version, b>> : b \in net.first .. (net.first + UnitSize(net) - 1) }

\* netaddr.IPSet(networks) in blocks of denominator addresses
UnitIPSet(nets) == UNION { UnitSet(n) : n \in nets }

\* Prefix.objects.filter(prefix__net_contained_or_equal=str(aggregate.prefix))
aggregate_queryset(agg, pfxs) ==
    SelectSeq(pfxs, LAMBDA p : /\ p.prefix.version = agg.prefix.version
                               /\ p.prefix.prefixlen >= agg.prefix.prefixlen
                               /\ UnitSet(p.prefix) \subseteq UnitSet(agg.prefix))

\* IPNetwork.supernet of a network of the RIR list, one bit shorter
UnitSupernet(net) ==
    LET sz == 2 * UnitSize(net)
    IN  [version |-> net.version, first |-> net.first - (net.first % sz),
         prefixlen |-> net.prefixlen - 1]

\* netaddr.cidr_merge(list): the largest networks lying in the union of the list
cidr_merge(nets) ==
    LET u == UnitIPSet(Range(nets))
        v == nets[1].version
    IN  IF nets = <<>> THEN <<>>
        ELSE SortedNets({ n \in RIRNetworks(v) :
                            /\ UnitSet(n) \subseteq u
                            /\ \/ UnitSupernet(n) \notin RIRNetworks(v)
                               \/ ~ (UnitSet(UnitSupernet(n)) \subseteq u) })

\* [p.prefix for p in queryset.filter(status=...)]
status_prefixes(queryset, status) ==
    LET rows == SelectSeq(queryset, LAMBDA p : p.status = status)
    IN  [i \in DOMAIN rows |-> rows[i].prefix]

RECURSIVE SumSizes(_)
SumSizes(nets) == IF nets = <<>> THEN 0 ELSE UnitSize(Head(nets)) + SumSizes(Tail(nets))

\* netaddr.IPSet(merged networks).size / denominator
merged_size(nets) == Cardinality(UnitIPSet(Range(nets)))

\* the sizes of the prefixes of the status added up, without cidr_merge and IPSet
status_size_sum(agg, pfxs, status) ==
    SumSizes(status_prefixes(aggregate_queryset(agg, pfxs), status))

\* the consumed size of one status of one aggregate (lines 190-192, 204-206)
status_size(agg, pfxs, status) ==
    merged_size(cidr_merge(status_prefixes(aggregate_queryset(agg, pfxs), status)))

\* available_prefixes.size / denominator of one aggregate (lines 195-200, 207)
available_size(agg, pfxs) ==
    LET q == aggregate_queryset(agg, pfxs)
        consumed(status) == UnitIPSet(Range(cidr_merge(status_prefixes(q, status))))
    IN  Cardinality(((UnitSet(agg.prefix) \ consumed(PREFIX_STATUS_ACTIVE))
                        \ consumed(PREFIX_STATUS_RESERVED))
                        \ consumed(PREFIX_STATUS_DEPRECATED))

\* the loop over aggregate_list (lines 184-207)
RECURSIVE aggregate_stats(_, _, _)
aggregate_stats(st, aggs, pfxs) ==
    IF aggs = <<>> THEN st
    ELSE LET agg == Head(aggs)
         IN  aggregate_stats(
                 [total |-> st.total + UnitSize(agg.prefix),
                  active |-> st.active + status_size(agg, pfxs, PREFIX_STATUS_ACTIVE),
                  reserved |-> st.reserved + status_size(agg, pfxs, PREFIX_STATUS_RESERVED),
                  deprecated |-> st.deprecated + status_size(agg, pfxs, PREFIX_STATUS_DEPRECATED),
                  available |-> st.available + available_size(agg, pfxs)],
                 Tail(aggs), pfxs)

\* the stats dict of lines 177-183
EmptyStats == [total |-> 0, active |-> 0, reserved |-> 0, deprecated |-> 0, available |-> 0]

\* Aggregate.objects.filter(family=family, rir=rir)
aggregate_list(fam, aggs) == SelectSeq(aggs, LAMBDA a : a.prefix.version = fam)

\* '{:.2f}'.format(x / total * 100): the digits of the string as a number of
\* hundredths, the nearest to 10000 * x / total.  No size / total of the model
\* lies halfway between two hundredths: that takes a total of 32 or more.
format_2f(x, total) ==
    LET q == (10000 * x) \div total
        r == (10000 * x) % total
    IN  IF 2 * r > total \/ (2 * r = total /\ q % 2 = 1) THEN q + 1 ELSE q

\* float('{:.2f}'.format(x / total * 100)) if total else 0
percentage(x, total) ==
    IF total # 0 THEN FloatOfHundredths(format_2f(x, total)) ELSE FloatZero

\* the available percentage calculated from the available size
percentages_independent(st) ==
    [active |-> percentage(st.active, st.total),
     reserved |-> percentage(st.reserved, st.total),
     deprecated |-> percentage(st.deprecated, st.total),
     available |-> percentage(st.available, st.total)]

\* stats['percentages'] (lines 210-220)
percentages(st) ==
    LET a == percentage(st.active, st.total)
        r == percentage(st.reserved, st.total)
        d == percentage(st.deprecated, st.total)
    IN  [active |-> a, reserved |-> r, deprecated |-> d,
         available |-> FloatSub(FloatSub(FloatSub(Float100, a), r), d)]

\* the stats dict with its 'percentages' entry
WithPercentages(st) ==
    [total |-> st.total, active |-> st.active, reserved |-> st.reserved,
     deprecated |-> st.deprecated, available |-> st.available,
     percentages |-> percentages(st)]

InitRIR ==
    /\ pc = "rirstart"
    /\ FormIdle
    /\ family \in {4, 6}
    /\ aggregates = <<>>
    /\ prefixes = <<>>
    /\ stats = EmptyStats
    /\ rir = [pk |-> 1]
    /\ rirs = <<>>
    /\ raised = NoException
    /\ parent = [version |-> 4, first |-> V4Base, prefixlen |-> 32]
    /\ prefix_list = <<>>
    /\ result = <<>>
    /\ prefix = [version |-> 4, first |-> V4Base, prefixlen |-> 32]
    /\ is_pool = FALSE
    /\ ipaddress_list = <<>>
    /\ output = <<>>

\* one more Aggregate row of the RIR; the table is read in the order of its
\* prefixes, and aggregates do not overlap one another
AddAggregate(n) ==
    /\ pc = "rirstart"
    /\ Len(aggregates) < MaxAggregates
    /\ \A i \in DOMAIN aggregates :
           /\ NetLess(aggregates[i].prefix, n)
           /\ UnitSet(aggregates[i].prefix) \cap UnitSet(n) = {}
    /\ aggregates' = Append(aggregates, [pk |-> Len(aggregates) + 1, prefix |-> n])
    /\ UNCHANGED <<formVars, pc, family, prefixes, stats, rir, rirs, raised, prefixVars, ipVars>>

\* one more Prefix row; the table is read in the order of its prefixes
AddPrefix(n, status) ==
    /\ pc = "rirstart"
    /\ Len(prefixes) < MaxRIRPrefixes
    /\ prefixes # <<>> => ~ NetLess(n, prefixes[Len(prefixes)].prefix)
    /\ prefixes' = Append(prefixes,
           [pk |-> Len(prefixes) + 1, prefix |-> n, status |-> status])
    /\ UNCHANGED <<formVars, pc, family, aggregates, stats, rir, rirs, raised, prefixVars, ipVars>>

\* RIRListView.alter_queryset for the RIR of the queryset
AlterQueryset ==
    /\ pc = "rirstart"
    /\ stats' = WithPercentages(
                    aggregate_stats(EmptyStats, aggregate_list(family, aggregates), prefixes))
    /\ rir' = [pk |-> rir.pk, stats |-> stats']
    /\ rirs' = Append(rirs, rir')
    /\ pc' = "rirdone"
    /\ UNCHANGED <<formVars, family, aggregates, prefixes, raised, prefixVars, ipVars>>

NextRIR ==
    \/ \E n \in RIRNetworks(family) : AddAggregate(n)
    \/ \E n \in RIRNetworks(family) : \E status \in PrefixStatuses : AddPrefix(n, status)
    \/ AlterQueryset

SpecRIR == InitRIR /\ [][NextRIR]_vars

\* the stats dicts the loop over the aggregates can end with: every size is
\* at most the total, and the available size is what no status covers
StatsOf(maxtotal) ==
    { st \in [total : 0 .. maxtotal, active : 0 .. maxtotal, reserved : 0 .. maxtotal,
              deprecated : 0 .. maxtotal, available : 0 .. maxtotal] :
        /\ st.active <= st.total
        /\ st.reserved <= st.total
        /\ st.deprecated <= st.total
        /\ st.available + st.active <= st.total
        /\ st.available + st.reserved <= st.total
        /\ st.available + st.deprecated <= st.total
        /\ st.available + st.active + st.reserved + st.deprecated >= st.total }

\* line 209 is reached with the sizes of the RIR added up
InitPercent ==
    /\ pc = "percent"
    /\ FormIdle
    /\ stats \in StatsOf(MaxTotal)
    /\ family = 4
    /\ aggregates = <<>>
    /\ prefixes = <<>>
    /\ rir = [pk |-> 1]
    /\ rirs = <<>>
    /\ raised = NoException
    /\ parent = [version |-> 4, first |-> V4Base, prefixlen |-> 32]
    /\ prefix_list = <<>>
    /\ result = <<>>
    /\ prefix = [version |-> 4, first |-> V4Base, prefixlen |-> 32]
    /\ is_pool = FALSE
    /\ ipaddress_list = <<>>
    /\ output = <<>>

\* lines 209-222: the percentages of the RIR
CalculatePercentages ==
    /\ pc = "percent"
    /\ stats' = WithPercentages(stats)
    /\ rir' = [pk |-> rir.pk, stats |-> stats']
    /\ rirs' = Append(rirs, rir')
    /\ pc' = "rirdone"
    /\ UNCHANGED <<formVars, family, aggregates, prefixes, raised, prefixVars, ipVars>>

NextPercent == CalculatePercentages

SpecPercent == InitPercent /\ [][NextPercent]_vars

(* ------------------------ IPAddressForm (forms.py) --------------------- *)

Devices == 1 .. MaxDevices

\* interface i is the interface of device i
Interfaces == 1 .. MaxDevices

\* Interface.device
InterfaceDevice(i) == i

Addresses == 1 .. MaxAddresses

\* the column of Device that holds the primary IP of a family
PrimaryField(version) == IF version = 4 THEN "primary_ip4" ELSE "primary_ip6"

\* ipaddress.primary_ip4_for / primary_ip6_for: the devices whose column holds
\* the address; the column is one-to-one, so there is at most one
PrimaryFor(d, version, a) == { dev \in DOMAIN d.devices : d.devices[dev][PrimaryField(version)] = a }

\* clean() without the check of lines 437-440
IPAddressForm_clean_unchecked(cd) == {}

\* IPAddressForm.clean (lines 433-440): the fields an error is added to
IPAddressForm_clean(cd) ==
    IF cd.primary_for_device /\ cd.interface = None THEN {"primary_for_device"} ELSE {}

\* super().save(): the instance is written with the cleaned address and interface
ModelForm_save(d, cd) ==
    [d EXCEPT !.ipaddresses[cd.instance] =
        [version |-> cd.version, interface |-> cd.interface]]

\* save() with the two branches writing the column of the other family
IPAddressForm_save_otherfamily(d, cd) ==
    LET d1 == ModelForm_save(d, cd)
        a == cd.instance
        col == PrimaryField(IF cd.version = 4 THEN 6 ELSE 4)
    IN  IF cd.primary_for_device
        THEN IF cd.interface = None
             THEN [db |-> d1, raised |-> "AttributeError"]
             ELSE [db |-> [d1 EXCEPT !.devices[InterfaceDevice(cd.interface)][col] = a],
                   raised |-> NoException]
        ELSE [db |-> [d1 EXCEPT !.devices =
                        [dev \in DOMAIN d1.devices |->
                            IF d1.devices[dev][col] = a
                            THEN [d1.devices[dev] EXCEPT ![col] = None]
                            ELSE d1.devices[dev]]],
              raised |-> NoException]

\* IPAddressForm.save (lines 442-468): the database after the call and the
\* exception it ended with
IPAddressForm_save(d, cd) ==
    LET d1 == ModelForm_save(d, cd)
        a == cd.instance
        col == PrimaryField(cd.version)
    IN  IF cd.primary_for_device
        THEN IF cd.interface = None
             THEN \* cleaned_data['interface'].device on None
                  [db |-> d1, raised |-> "AttributeError"]
             ELSE LET device == InterfaceDevice(cd.interface)
                  IN  IF PrimaryFor(d1, cd.version, a) \ {device} # {}
                      THEN \* device.save(): the column is unique
                           [db |-> d1, raised |-> "IntegrityError"]
                      ELSE [db |-> [d1 EXCEPT !.devices[device][col] = a],
                            raised |-> NoException]
        ELSE \* ipaddress.primary_ip4_for raises Device.DoesNotExist when empty
             [db |-> [d1 EXCEPT !.devices =
                        [dev \in DOMAIN d1.devices |->
                            IF dev \in PrimaryFor(d1, cd.version, a)
                            THEN [d1.devices[dev] EXCEPT ![col] = None]
                            ELSE d1.devices[dev]]],
              raised |-> NoException]

\* the database before any address is assigned
InitIPForm ==
    /\ pc = "idle"
    /\ db = [devices |-> [dev \in Devices |-> [primary_ip4 |-> None, primary_ip6 |-> None]],
             ipaddresses |-> [a \in Addresses |-> [version |-> 4, interface |-> None]]]
    /\ cleaned_data = <<>>
    /\ errors = {}
    /\ obj = None
    /\ raised = NoException
    /\ RIRIdle
    /\ parent = [version |-> 4, first |-> V4Base, prefixlen |-> 32]
    /\ prefix_list = <<>>
    /\ result = <<>>
    /\ prefix = [version |-> 4, first |-> V4Base, prefixlen |-> 32]
    /\ is_pool = FALSE
    /\ ipaddress_list = <<>>
    /\ output = <<>>

\* the form is submitted for an address and form.is_valid() runs clean()
CleanIPAddressForm(a, version, interface, primary) ==
    /\ pc = "idle"
    /\ cleaned_data' = [instance |-> a, version |-> version, interface |-> interface,
                        primary_for_device |-> primary]
    /\ errors' = IPAddressForm_clean(cleaned_data')
    /\ obj' = None
    /\ raised' = NoException
    /\ pc' = "cleaned"
    /\ UNCHANGED <<db, prefixVars, ipVars, rirVars>>

\* the view saves a valid form and the request ends
SaveIPAddressForm ==
    /\ pc = "cleaned"
    /\ errors = {}
    /\ LET r == IPAddressForm_save(db, cleaned_data)
       IN  /\ db' = r.db
           /\ raised' = r.raised
           /\ obj' = IF r.raised = NoException THEN cleaned_data.instance ELSE None
    /\ cleaned_data' = <<>>
    /\ pc' = "idle"
    /\ UNCHANGED <<errors, prefixVars, ipVars, rirVars>>

\* an invalid form is shown again with its errors; nothing is saved
RejectIPAddressForm ==
    /\ pc = "cleaned"
    /\ errors # {}
    /\ cleaned_data' = <<>>
    /\ errors' = {}
    /\ pc' = "idle"
    /\ UNCHANGED <<db, obj, raised, prefixVars, ipVars, rirVars>>

NextIPForm ==
    \/ \E a \in Addresses : \E version \in {4, 6} :
           \E interface \in Interfaces \cup {None} : \E primary \in BOOLEAN :
               CleanIPAddressForm(a, version, interface, primary)
    \/ SaveIPAddressForm
    \/ RejectIPAddressForm

SpecIPForm == InitIPForm /\ [][NextIPForm]_vars

(* ------------- IPAddressBulkImportView and IPAddressFromCSVForm -------- *)

\* pk of an IP address stored before the import; the imported ones get the
\* number of their record
ExistingAddress == MaxRecords + 1

\* an empty device field, and primary_ip4_for / primary_ip6_for never set
NoDevice == [pk |-> None, primary_ip4 |-> None, primary_ip6 |-> None]

\* IPAddressFromCSVForm.clean (lines 488-505) for a record naming a device
\* (or None) and an interface (or None): the fields an error is added to.
\* Interface.objects.get(device=device, name=interface_name) finds interface i
\* on its own device only.
IPAddressFromCSVForm_clean(rec) ==
    (IF rec.device.pk # None /\ rec.interface_name # None
          /\ InterfaceDevice(rec.interface_name) # rec.device.pk
     THEN {"interface_name"} ELSE {})
    \cup (IF rec.device.pk # None /\ rec.interface_name = None THEN {"interface_name"} ELSE {})
    \cup (IF rec.interface_name # None /\ rec.device.pk = None THEN {"device"} ELSE {})
    \cup (IF rec.is_primary /\ rec.device.pk = None THEN {"is_primary"} ELSE {})

\* IPAddressFromCSVForm.save (lines 507-521) with commit=False: the unsaved
\* IPAddress with its interface and the device it is to be primary for
IPAddressFromCSVForm_save(rec) ==
    [version |-> rec.version,
     interface |-> IF rec.device.pk # None /\ rec.interface_name # None
                   THEN rec.interface_name ELSE None,
     primary_ip4_for |-> IF rec.is_primary /\ rec.version = 4 THEN rec.device ELSE NoDevice,
     primary_ip6_for |-> IF rec.is_primary /\ rec.version = 6 THEN rec.device ELSE NoDevice]

\* save_obj saving the Device object that was loaded when the record was
\* cleaned, in place of the update of one column
save_obj_device_save(d, o, pk) ==
    LET d1 == [d EXCEPT !.ipaddresses = Append(d.ipaddresses,
                   [version |-> o.version, interface |-> o.interface])]
    IN  IF o.version = 4 /\ o.primary_ip4_for.pk # None
        THEN [d1 EXCEPT !.devices[o.primary_ip4_for.pk] =
                 [primary_ip4 |-> pk, primary_ip6 |-> o.primary_ip4_for.primary_ip6]]
        ELSE IF o.version = 6 /\ o.primary_ip6_for.pk # None
        THEN [d1 EXCEPT !.devices[o.primary_ip6_for.pk] =
                 [primary_ip4 |-> o.primary_ip6_for.primary_ip4, primary_ip6 |-> pk]]
        ELSE d1

\* IPAddressBulkImportView.save_obj (views.py lines 603-614): obj.save(), then
\* Device.objects.filter(pk=...).update(primary_ip4=obj) or (primary_ip6=obj)
save_obj(d, o, pk) ==
    LET d1 == [d EXCEPT !.ipaddresses = Append(d.ipaddresses,
                   [version |-> o.version, interface |-> o.interface])]
    IN  IF o.version = 4 /\ o.primary_ip4_for.pk # None
        THEN [d1 EXCEPT !.devices[o.primary_ip4_for.pk].primary_ip4 = pk]
        ELSE IF o.version = 6 /\ o.primary_ip6_for.pk # None
        THEN [d1 EXCEPT !.devices[o.primary_ip6_for.pk].primary_ip6 = pk]
        ELSE d1

\* the devices before the import; a device may have primary IPs already
InitImport ==
    /\ pc = "csv"
    /\ \E prim \in [Devices -> [primary_ip4 : {None, ExistingAddress},
                                primary_ip6 : {None}]] :
           db = [devices |-> prim, ipaddresses |-> <<>>]
    /\ cleaned_data = <<>>
    /\ errors = {}
    /\ obj = 0
    /\ raised = NoException
    /\ RIRIdle
    /\ parent = [version |-> 4, first |-> V4Base, prefixlen |-> 32]
    /\ prefix_list = <<>>
    /\ result = <<>>
    /\ prefix = [version |-> 4, first |-> V4Base, prefixlen |-> 32]
    /\ is_pool = FALSE
    /\ ipaddress_list = <<>>
    /\ output = <<>>

\* the Device object a record's device field is cleaned to: the row as it is
\* when the CSV is validated
DeviceObject(dev) ==
    IF dev = None THEN NoDevice
    ELSE [pk |-> dev, primary_ip4 |-> db.devices[dev].primary_ip4,
          primary_ip6 |-> db.devices[dev].primary_ip6]

\* one more record of the CSV is validated; a valid one is kept as an
\* unsaved object, an invalid one rejects the import
CleanRecord(version, dev, interface_name, is_primary) ==
    /\ pc = "csv"
    /\ Len(cleaned_data) < MaxRecords
    /\ LET rec == [version |-> version, device |-> DeviceObject(dev),
                   interface_name |-> interface_name, is_primary |-> is_primary]
       IN  /\ errors' = IPAddressFromCSVForm_clean(rec)
           /\ IF errors' = {}
              THEN /\ cleaned_data' = Append(cleaned_data, IPAddressFromCSVForm_save(rec))
                   /\ pc' = "csv"
              ELSE /\ cleaned_data' = <<>>
                   /\ pc' = "rejected"
    /\ UNCHANGED <<db, obj, raised, prefixVars, ipVars, rirVars>>

\* the view calls save_obj for the next object of the valid import
SaveObj ==
    /\ pc \in {"csv", "saving"}
    /\ obj < Len(cleaned_data)
    /\ db' = save_obj(db, cleaned_data[obj + 1], obj + 1)
    /\ obj' = obj + 1
    /\ pc' = IF obj' = Len(cleaned_data) THEN "imported" ELSE "saving"
    /\ UNCHANGED <<cleaned_data, errors, raised, prefixVars, ipVars, rirVars>>

NextImport ==
    \/ \E version \in {4, 6} : \E dev \in Devices \cup {None} :
           \E interface_name \in Interfaces \cup {None} : \E is_primary \in BOOLEAN :
               CleanRecord(version, dev, interface_name, is_primary)
    \/ SaveObj

SpecImport == InitImport /\ [][NextImport]_vars

(* --------------- connection imports (dcim/forms.py) -------------------- *)

\* connection_status values
CONNECTION_STATUS_PLANNED == FALSE
CONNECTION_STATUS_CONNECTED == TRUE

\* the status texts a CSV record is given
StatusInputs == {"planned", "Planned", "connected", "CONNECTED", "active"}

\* str.lower()
Lower(s) ==
    CASE s = "Planned" -> "planned"
      [] s = "CONNECTED" -> "connected"
      [] OTHER -> s

\* validate_connection_status (lines 51-56): the value is accepted
validate_connection_status(value) == Lower(value) \in {"planned", "connected"}

\* lines 904-907, 1175-1178 and 1616-1619: the status of the connection
connection_status(status) ==
    IF status = "planned" THEN CONNECTION_STATUS_PLANNED ELSE CONNECTION_STATUS_CONNECTED

\* console ports (power ports) and console server ports (power outlets)
Ports == 1 .. MaxPorts
ServerPorts == 1 .. MaxPorts

\* ConsoleConnectionCSVForm / PowerConnectionCSVForm: is_valid() of a record.
\* A name that matches no port is None.  d.cs_port[p] is the server port
\* (outlet) the port p is connected to in the database.
ConnectionCSVForm_is_valid(d, rec) ==
    /\ validate_connection_status(rec.status)
    /\ rec.cs_port # None
    /\ \A p \in Ports : d.cs_port[p] # rec.cs_port
    /\ rec.console_port # None
    /\ d.cs_port[rec.console_port] = None

\* ConsoleConnectionImportForm.clean / PowerConnectionImportForm.clean: the
\* connection list built from the records i .. Len(records)
RECURSIVE ConnectionImportForm_clean(_, _, _)
ConnectionImportForm_clean(d, records, i) ==
    IF i > Len(records) THEN [connection_list |-> <<>>, errors |-> {}]
    ELSE LET rest == ConnectionImportForm_clean(d, records, i + 1)
             rec == records[i]
         IN  IF ConnectionCSVForm_is_valid(d, rec)
             THEN [connection_list |->
                       <<[record |-> i, console_port |-> rec.console_port,
                          cs_port |-> rec.cs_port,
                          connection_status |-> connection_status(rec.status)]>>
                       \o rest.connection_list,
                   errors |-> rest.errors]
             ELSE [connection_list |-> rest.connection_list,
                   errors |-> {"csv"} \cup rest.errors]

\* the ports of the database, some of them connected already; a server port
\* holds one port at most
InitConnectionImport ==
    /\ pc = "records"
    /\ \E kind \in {"console", "power"} :
           \E cs \in { f \in [Ports -> ServerPorts \cup {None}] :
                         \A p, q \in Ports : (p # q /\ f[p] # None) => f[p] # f[q] } :
               db = [kind |-> kind, cs_port |-> cs]
    /\ cleaned_data = <<>>
    /\ errors = {}
    /\ obj = None
    /\ raised = NoException
    /\ RIRIdle
    /\ parent = [version |-> 4, first |-> V4Base, prefixlen |-> 32]
    /\ prefix_list = <<>>
    /\ result = <<>>
    /\ prefix = [version |-> 4, first |-> V4Base, prefixlen |-> 32]
    /\ is_pool = FALSE
    /\ ipaddress_list = <<>>
    /\ output = <<>>

\* one more record of the CSV
ConnectionRecord(console_port, cs_port, status) ==
    /\ pc = "records"
    /\ Len(cleaned_data) < MaxRecords
    /\ cleaned_data' = Append(cleaned_data,
           [console_port |-> console_port, cs_port |-> cs_port, status |-> status])
    /\ UNCHANGED <<pc, db, errors, obj, raised, prefixVars, ipVars, rirVars>>

\* clean() of the import form: cleaned_data['csv'] becomes the connection
\* list; obj keeps the records that were submitted
CleanConnectionImport ==
    /\ pc = "records"
    /\ cleaned_data # <<>>
    /\ obj' = cleaned_data
    /\ LET r == ConnectionImportForm_clean(db, cleaned_data, 1)
       IN  /\ cleaned_data' = r.connection_list
           /\ errors' = r.errors
    /\ pc' = "cleaned"
    /\ UNCHANGED <<db, raised, prefixVars, ipVars, rirVars>>

NextConnectionImport ==
    \/ \E console_port \in Ports \cup {None} : \E cs_port \in ServerPorts \cup {None} :
           \E status \in StatusInputs : ConnectionRecord(console_port, cs_port, status)
    \/ CleanConnectionImport

SpecConnectionImport == InitConnectionImport /\ [][NextConnectionImport]_vars

\* the interfaces the interface connection import can name
ConnInterfaces == 1 .. (MaxPorts + 1)

\* the interfaces that are an end of an InterfaceConnection of the database
Connected(d) == UNION d.connections

\* InterfaceConnectionCSVForm (lines 1543-1588): is_valid() of a record.  A
\* device and name that match no interface are None.
InterfaceConnectionCSVForm_is_valid(d, rec) ==
    /\ validate_connection_status(rec.status)
    /\ rec.interface_a # None
    /\ rec.interface_a \notin Connected(d)
    /\ rec.interface_b # None
    /\ rec.interface_b \notin Connected(d)

\* InterfaceConnectionImportForm.clean (lines 1594-1628) from record i on,
\* with the connection list, the occupied interfaces and the errors so far
RECURSIVE InterfaceConnectionImportForm_clean(_, _, _, _, _, _)
InterfaceConnectionImportForm_clean(d, records, i, connection_list, occupied_interfaces, errs) ==
    IF i > Len(records)
    THEN [connection_list |-> connection_list, errors |-> errs, raised |-> NoException]
    ELSE LET rec == records[i]
         IN  IF ~ InterfaceConnectionCSVForm_is_valid(d, rec)
             THEN InterfaceConnectionImportForm_clean(d, records, i + 1, connection_list,
                      occupied_interfaces, errs \cup {"csv"})
             ELSE IF rec.interface_a \in occupied_interfaces
                        \/ rec.interface_b \in occupied_interfaces
             THEN \* found in multiple connections
                  [connection_list |-> connection_list, errors |-> errs,
                   raised |-> "ValidationError"]
             ELSE InterfaceConnectionImportForm_clean(d, records, i + 1,
                      Append(connection_list,
                          [record |-> i, interface_a |-> rec.interface_a,
                           interface_b |-> rec.interface_b,
                           connection_status |-> connection_status(rec.status)]),
                      occupied_interfaces \cup {rec.interface_a, rec.interface_b}, errs)

\* the interfaces of the database; at most one connection exists
InitInterfaceImport ==
    /\ pc = "records"
    /\ \E conns \in {{}} \cup { {{a, b}} : <<a, b>> \in
                                 { t \in ConnInterfaces \X ConnInterfaces : t[1] < t[2] } } :
           db = [kind |-> "interface", connections |-> conns]
    /\ cleaned_data = <<>>
    /\ errors = {}
    /\ obj = None
    /\ raised = NoException
    /\ RIRIdle
    /\ parent = [version |-> 4, first |-> V4Base, prefixlen |-> 32]
    /\ prefix_list = <<>>
    /\ result = <<>>
    /\ prefix = [version |-> 4, first |-> V4Base, prefixlen |-> 32]
    /\ is_pool = FALSE
    /\ ipaddress_list = <<>>
    /\ output = <<>>

\* one more record of the CSV
InterfaceRecord(interface_a, interface_b, status) ==
    /\ pc = "records"
    /\ Len(cleaned_data) < MaxRecords
    /\ cleaned_data' = Append(cleaned_data,
           [interface_a |-> interface_a, interface_b |-> interface_b, status |-> status])
    /\ UNCHANGED <<pc, db, errors, obj, raised, prefixVars, ipVars, rirVars>>

\* clean() of the import form: cleaned_data['csv'] becomes the connection
\* list, unless clean() raises; obj keeps the records that were submitted
CleanInterfaceImport ==
    /\ pc = "records"
    /\ cleaned_data # <<>>
    /\ obj' = cleaned_data
    /\ LET r == InterfaceConnectionImportForm_clean(db, cleaned_data, 1, <<>>, {}, {})
       IN  /\ cleaned_data' = IF r.raised = NoException THEN r.connection_list
                              ELSE cleaned_data
           /\ errors' = r.errors
           /\ raised' = r.raised
           /\ pc' = IF r.raised = NoException THEN "cleaned" ELSE "invalid"
    /\ UNCHANGED <<db, prefixVars, ipVars, rirVars>>

NextInterfaceImport ==
    \/ \E interface_a \in ConnInterfaces \cup {None} :
           \E interface_b \in ConnInterfaces \cup {None} :
               \E status \in StatusInputs : InterfaceRecord(interface_a, interface_b, status)
    \/ CleanInterfaceImport

SpecInterfaceImport == InitInterfaceImport /\ [][NextInterfaceImport]_vars

\* -------- VLANFromCSVForm (forms.py 636-683) --------
MaxSites == 2

Sites == 1 .. MaxSites
GroupNames == {"g1", "g2"}
StatusNames == {"Active", "Reserved", "Deprecated"}

\* a VLAN without a group
NoGroup == <<None, "">>

\* the ways save() is called: without arguments, commit=True, commit=False
CommitArguments == {"absent", "True", "False"}

\* kwargs.get('commit') (line 681) as a truth value
kwargs_get_commit(commit) == commit = "True"

\* dict(self.fields['status_name'].choices)[status_name] (line 679)
VLANStatus(status_name) ==
    CASE status_name = "Active" -> 1
      [] status_name = "Reserved" -> 2
      [] status_name = "Deprecated" -> 3

\* VLANFromCSVForm.clean (lines 657-668): the errors of a record
VLANFromCSVForm_clean(d, rec) ==
    IF rec.group_name # "" /\ <<rec.site, rec.group_name>> \notin d.groups
    THEN {"group_name"} ELSE {}

\* VLANFromCSVForm.save (lines 670-683): the VLAN returned and the database
VLANFromCSVForm_save(d, cd, commit) ==
    LET vlan == [site |-> cd.site,
                 group |-> IF cd.group_name # "" THEN <<cd.site, cd.group_name>> ELSE NoGroup,
                 status |-> VLANStatus(cd.status_name)]
    IN  [vlan |-> vlan,
         db |-> IF kwargs_get_commit(commit)
                THEN [d EXCEPT !.vlans = @ \cup {vlan}]
                ELSE d]

InitVLANImport ==
    /\ pc = "vlan"
    /\ \E groups \in SUBSET (Sites \X GroupNames) :
           db = [kind |-> "vlan", groups |-> groups, vlans |-> {}]
    /\ cleaned_data = <<>>
    /\ errors = {}
    /\ obj = None
    /\ raised = NoException
    /\ RIRIdle
    /\ parent = [version |-> 4, first |-> V4Base, prefixlen |-> 32]
    /\ prefix_list = <<>>
    /\ result = <<>>
    /\ prefix = [version |-> 4, first |-> V4Base, prefixlen |-> 32]
    /\ is_pool = FALSE
    /\ ipaddress_list = <<>>
    /\ output = <<>>

\* is_valid() of a record of the CSV
CleanVLAN(site, group_name, status_name) ==
    /\ pc = "vlan"
    /\ LET rec == [site |-> site, group_name |-> group_name, status_name |-> status_name]
       IN  /\ cleaned_data' = rec
           /\ errors' = VLANFromCSVForm_clean(db, rec)
           /\ pc' = IF VLANFromCSVForm_clean(db, rec) = {} THEN "vlancleaned" ELSE "vlanrejected"
    /\ UNCHANGED <<db, obj, raised, prefixVars, ipVars, rirVars>>

\* save() of a valid form; obj is the call: its commit argument and the
\* VLAN it returned
SaveVLAN(commit) ==
    /\ pc = "vlancleaned"
    /\ LET r == VLANFromCSVForm_save(db, cleaned_data, commit)
       IN  /\ db' = r.db
           /\ obj' = [commit |-> commit, vlan |-> r.vlan]
    /\ pc' = "vlansaved"
    /\ UNCHANGED <<cleaned_data, errors, raised, prefixVars, ipVars, rirVars>>

NextVLANImport ==
    \/ \E site \in Sites \cup {None} :
           \E group_name \in GroupNames \cup {""} :
               \E status_name \in StatusNames : CleanVLAN(site, group_name, status_name)
    \/ \E commit \in CommitArguments : SaveVLAN(commit)

SpecVLANImport == InitVLANImport /\ [][NextVLANImport]_vars

\* -------- the prefix and aggregate detail views (views.py 286-294, 428-433) --------

\* prefix__net_contained: inside the parent and longer than it
net_contained(n, par) ==
    /\ net_contained_or_equal(n, par)
    /\ n.prefixlen > par.prefixlen

\* the child prefixes of the aggregate view (lines 290-291)
aggregate_child_prefixes(par, table) ==
    SelectSeq(table, LAMBDA p : net_contained_or_equal(p.prefix, par))

\* the child prefixes of the prefix view (lines 428-429)
prefix_child_prefixes(par, table) ==
    SelectSeq(table, LAMBDA p : net_contained(p.prefix, par))

\* the rows of the aggregate view's prefix table (lines 290-294)
aggregate_view(par, table) ==
    add_available_prefixes(par, aggregate_child_prefixes(par, table))

\* the rows of the prefix view's child prefix table (lines 428-432)
prefix_view(par, table) ==
    LET child_prefixes == prefix_child_prefixes(par, table)
    IN  IF child_prefixes # <<>>
        THEN add_available_prefixes(par, child_prefixes)
        ELSE child_prefixes

\* the prefix or aggregate that is displayed, and an empty Prefix table
InitViews ==
    /\ pc = "request"
    /\ FormIdle
    /\ parent \in Networks
    /\ prefix_list = <<>>
    /\ result = <<>>
    /\ prefix = [version |-> 4, first |-> V4Base, prefixlen |-> 32]
    /\ is_pool = FALSE
    /\ ipaddress_list = <<>>
    /\ output = <<>>
    /\ raised = NoException
    /\ RIRIdle

\* one more Prefix of the database
StoredPrefix(n) ==
    /\ pc = "request"
    /\ Len(prefix_list) < MaxDirectRecords
    /\ prefix_list' = Append(prefix_list, [pk |-> Len(prefix_list) + 1, prefix |-> n])
    /\ UNCHANGED <<formVars, pc, parent, result, ipVars, raised, rirVars>>

\* the aggregate view is served
AggregateView ==
    /\ pc = "request"
    /\ result' = aggregate_view(parent, prefix_list)
    /\ pc' = "aggregateview"
    /\ UNCHANGED <<formVars, parent, prefix_list, ipVars, raised, rirVars>>

\* the prefix view is served
PrefixView ==
    /\ pc = "request"
    /\ result' = prefix_view(parent, prefix_list)
    /\ pc' = "prefixview"
    /\ UNCHANGED <<formVars, parent, prefix_list, ipVars, raised, rirVars>>

NextViews ==
    \/ \E n \in Networks : StoredPrefix(n)
    \/ AggregateView
    \/ PrefixView

SpecViews == InitViews /\ [][NextViews]_vars

(* ------------------------- the three operations ----------------------- *)

\* a request is served by one of the views
InitAll == InitPrefixes \/ InitIPs \/ InitRIR

NextAll == NextPrefixes \/ NextIPs \/ NextRIR

SpecAll == InitAll /\ [][NextAll]_vars

(* ------------------- properties: add_available_prefixes ---------------- *)

\* the entries of a returned list that are unsaved (synthetic) Prefix records
Synthetic(res) == SelectSeq(res, LAMBDA r : r.pk = None)

\* the entries of a list that are saved Prefix records
Saved(res) == SelectSeq(res, LAMBDA r : r.pk # None)

\* number of positions of a list holding the record r
Count(s, r) == Cardinality({ i \in DOMAIN s : s[i] = r })

Disjoint(m, n) == IPSetOf(m) \cap IPSetOf(n) = {}

\* C1: the returned entries cover exactly the parent, the synthetic available
\* prefixes do not overlap one another, and none of them overlaps a child.
C1_Coverage ==
    pc = "done" =>
        LET syn == Synthetic(result)
        IN  /\ IPSet({ r.prefix : r \in Range(result) }) = IPSetOf(parent)
            /\ \A i, j \in DOMAIN syn : i # j => Disjoint(syn[i].prefix, syn[j].prefix)
            /\ \A i \in DOMAIN syn : \A c \in Range(prefix_list) :
                   Disjoint(syn[i].prefix, c.prefix)

\* C1 witness: overlapping children leave two or more gaps in the parent
C1_Witness ==
    /\ pc = "done"
    /\ Len(Synthetic(result)) >= 2
    /\ \E i, j \in DOMAIN prefix_list :
          /\ i # j
          /\ ~ Disjoint(prefix_list[i].prefix, prefix_list[j].prefix)

\* C2: with no children the result is exactly one synthetic prefix equal to
\* the parent.
C2_NoChildren ==
    (pc = "done" /\ prefix_list = <<>>) => result = <<NewPrefix(parent)>>

\* C2 witness: a parent of more than one address was processed with no child
C2_Witness ==
    /\ pc = "done"
    /\ prefix_list = <<>>
    /\ Size(parent) > 1

\* C3: when the children cover the whole parent no synthetic prefix is added,
\* and running the function again on its own result adds none.
C3_FullCoverage ==
    /\ (pc # "start" /\ IPSetOf(parent) \subseteq IPSet({ c.prefix : c \in Range(prefix_list) }))
           => /\ Len(result) = Len(prefix_list)
              /\ \A r \in Range(result) : r \in Range(prefix_list)
    /\ pc = "rerun" => Len(result) = Len(prefix_list)

\* C3 witness: the function was run again on a result holding both children
\* and synthetic prefixes
C3_Witness ==
    /\ pc = "rerun"
    /\ Len(Synthetic(prefix_list)) >= 1
    /\ Len(Saved(prefix_list)) >= 1

\* C4: the result is ascending by start address, and entries with the same
\* start address are ordered by prefix length ascending.
C4_Sorted ==
    pc # "start" =>
        \A i, j \in DOMAIN result :
            i < j =>
                \/ First(result[i].prefix) < First(result[j].prefix)
                \/ /\ First(result[i].prefix) = First(result[j].prefix)
                   /\ result[i].prefix.prefixlen <= result[j].prefix.prefixlen

\* C4 witness: two children share a start address with different lengths,
\* were passed longest first, and a synthetic prefix follows them
C4_Witness ==
    /\ pc = "done"
    /\ Len(Synthetic(result)) >= 1
    /\ \E i, j \in DOMAIN prefix_list :
          /\ i < j
          /\ First(prefix_list[i].prefix) = First(prefix_list[j].prefix)
          /\ prefix_list[i].prefix.prefixlen > prefix_list[j].prefix.prefixlen

\* C5: every child record is returned unchanged, as many times as it was
\* passed, and the result has one entry per child plus one per synthetic
\* prefix.
C5_ChildrenKept ==
    pc = "done" =>
        /\ \A r \in Range(prefix_list) : Count(result, r) = Count(prefix_list, r)
        /\ \A r \in Range(Saved(result)) : r \in Range(prefix_list)
        /\ Len(result) = Len(prefix_list) + Len(Synthetic(result))

\* C5 witness: duplicate and nested children were passed and a gap was added
C5_Witness ==
    /\ pc = "done"
    /\ Len(Synthetic(result)) >= 1
    /\ \E i, j, k \in DOMAIN prefix_list :
          /\ i # j
          /\ prefix_list[i].prefix = prefix_list[j].prefix
          /\ prefix_list[k].prefix # prefix_list[i].prefix
          /\ ~ Disjoint(prefix_list[k].prefix, prefix_list[i].prefix)

\* the child list with its networks in another order (records are numbered
\* in the order they are passed)
Permuted(s, f) == [i \in DOMAIN s |-> [pk |-> i, prefix |-> s[f[i]].prefix]]

\* a child list whose networks are in ascending order
Ascending(s) == \A i \in 1 .. (Len(s) - 1) : ~ NetLess(s[i + 1].prefix, s[i].prefix)

PositionPermutations(n) == { f \in [1 .. n -> 1 .. n] : \A i, j \in 1 .. n : i # j => f[i] # f[j] }

\* two networks that are the two halves of one supernet
Siblings(m, n) ==
    /\ m # n
    /\ m.prefixlen = n.prefixlen
    /\ m.prefixlen > 0
    /\ Supernet(m) = Supernet(n)

\* C6: the synthetic prefixes are aligned blocks, are the minimal list of
\* blocks whose union is the uncovered space (disjoint, no two of them merge
\* into a larger block), and are the same list for any order or multiplicity
\* of the same children.  Every child list is a reordering of an ascending
\* one, so each reordering of every ascending list is compared with it.
C6_Canonical ==
    pc = "done" =>
        LET syn == Synthetic(result)
            covered == IPSet({ c.prefix : c \in Range(prefix_list) })
        IN  /\ \A i \in DOMAIN syn : First(syn[i].prefix) % Size(syn[i].prefix) = 0
            /\ IPSet({ r.prefix : r \in Range(syn) }) = IPSetOf(parent) \ covered
            /\ \A i, j \in DOMAIN syn :
                   i # j => /\ Disjoint(syn[i].prefix, syn[j].prefix)
                            /\ ~ Siblings(syn[i].prefix, syn[j].prefix)
            /\ Ascending(prefix_list) =>
                   \A f \in PositionPermutations(Len(prefix_list)) :
                       Synthetic(add_available_prefixes(parent, Permuted(prefix_list, f))) = syn
            /\ \A c \in Range(prefix_list) :
                   Synthetic(add_available_prefixes(parent, Append(prefix_list, c))) = syn

\* C6 witness: the uncovered space is not one block and its pieces can only
\* be told apart from a finer split by merging
C6_Witness ==
    /\ pc = "done"
    /\ Len(prefix_list) >= 2
    /\ \E i, j \in DOMAIN result :
          /\ result[i].pk = None
          /\ result[j].pk = None
          /\ Size(result[i].prefix) > 1
          /\ result[i].prefix.prefixlen # result[j].prefix.prefixlen

(* ------------------ properties: add_available_ipaddresses -------------- *)

\* an entry of the output that is an available range (count, first_skipped)
IsAvailable(e) == "count" \in DOMAIN e

\* the available-range entries of an output
AvailableEntries(out) == SelectSeq(out, IsAvailable)

\* the address a printed first_skipped string starts at
StartOf(version, e) ==
    LET g == e.first_skipped[1]
    IN  IF version = 4
        THEN g[1] * 16777216 + g[2] * 65536 + g[3] * 256 + g[4]
        ELSE g[7] * 65536 + g[8]

\* the addresses an available-range entry stands for
AddressesOf(version, e) == StartOf(version, e) .. (StartOf(version, e) + e.count - 1)

\* the addresses of the allocated records
Allocated(ips) == { ips[i].address.ip : i \in DOMAIN ips }

\* the usable range as the pool policy states it
FirstUsable(pfx, pool) ==
    IF pfx.version = 4 /\ pfx.prefixlen < 31 /\ ~ pool THEN pfx.first + 1 ELSE pfx.first

LastUsable(pfx, pool) ==
    IF pfx.version = 4 /\ pfx.prefixlen < 31 /\ ~ pool
    THEN pfx.first + Size(pfx) - 2
    ELSE pfx.first + Size(pfx) - 1

RECURSIVE SumCounts(_)
SumCounts(s) == IF s = <<>> THEN 0 ELSE s[1].count + SumCounts(Tail(s))

\* C7: for a non-pool IPv4 prefix shorter than /31 the available ranges lie
\* in [first + 1, last - 1] and leave out no free address of that range: the
\* network and the broadcast address are in no available range.
C7_EndsExcluded ==
    (pc = "ipdone" /\ prefix.version = 4 /\ prefix.prefixlen < 31 /\ ~ is_pool) =>
        LET av == AvailableEntries(output)
        IN  /\ \A i \in DOMAIN av :
                   /\ AddressesOf(4, av[i]) \subseteq (prefix.first + 1) .. (LastAddr(prefix) - 1)
                   /\ prefix.first \notin AddressesOf(4, av[i])
                   /\ LastAddr(prefix) \notin AddressesOf(4, av[i])
            /\ \A a \in (prefix.first + 1) .. (LastAddr(prefix) - 1) :
                   a \notin Allocated(ipaddress_list) =>
                       \E i \in DOMAIN av : a \in AddressesOf(4, av[i])

\* C7 witness: a non-pool IPv4 prefix whose only allocated address is inside,
\* so that free space reaches both ends of the prefix
C7_Witness ==
    /\ pc = "ipdone"
    /\ prefix.version = 4 /\ prefix.prefixlen < 31 /\ ~ is_pool
    /\ Len(ipaddress_list) = 1
    /\ ipaddress_list[1].address.ip > prefix.first + 1
    /\ ipaddress_list[1].address.ip < LastAddr(prefix) - 1
    /\ Len(AvailableEntries(output)) = 2

\* C8: for a pool, and for an IPv4 /31 or /32, the usable range is the whole
\* prefix: the first and the last address are in an available range unless
\* they are allocated, and no available range leaves the prefix.
C8_WholePrefixUsable ==
    (pc = "ipdone" /\ (is_pool \/ (prefix.version = 4 /\ prefix.prefixlen \in {31, 32}))) =>
        LET av == AvailableEntries(output)
            v == prefix.version
        IN  /\ prefix.first \notin Allocated(ipaddress_list) =>
                   \E i \in DOMAIN av : prefix.first \in AddressesOf(v, av[i])
            /\ LastAddr(prefix) \notin Allocated(ipaddress_list) =>
                   \E i \in DOMAIN av : LastAddr(prefix) \in AddressesOf(v, av[i])
            /\ \A i \in DOMAIN av :
                   AddressesOf(v, av[i]) \subseteq prefix.first .. LastAddr(prefix)

\* C8 witness: a non-pool IPv4 /31 with nothing allocated
C8_Witness ==
    /\ pc = "ipdone"
    /\ prefix.version = 4 /\ prefix.prefixlen = 31 /\ ~ is_pool
    /\ ipaddress_list = <<>>
    /\ Len(output) = 1

\* C9: with an empty allocated list the output is exactly one available range
\* that starts at first_usable and counts last_usable - first_usable + 1.
C9_EmptyList ==
    (pc = "ipdone" /\ ipaddress_list = <<>>) =>
        /\ Len(output) = 1
        /\ IsAvailable(output[1])
        /\ output[1].count = LastUsable(prefix, is_pool) - FirstUsable(prefix, is_pool) + 1
        /\ StartOf(prefix.version, output[1]) = FirstUsable(prefix, is_pool)
        /\ output[1].first_skipped[2] = prefix.prefixlen

\* C9 witness: a non-pool IPv4 prefix shorter than /31 with nothing allocated
C9_Witness ==
    /\ pc = "ipdone"
    /\ ipaddress_list = <<>>
    /\ prefix.version = 4 /\ prefix.prefixlen < 31 /\ ~ is_pool
    /\ output # <<>>

\* C10: the output covers the usable range exactly once: a usable address is
\* allocated or lies in exactly one available range, an available range holds
\* no allocated address and no address outside the usable range, and the
\* counts add up to the number of usable addresses that are not allocated.
C10_ExactCover ==
    pc = "ipdone" =>
        LET av == AvailableEntries(output)
            v == prefix.version
            usable == FirstUsable(prefix, is_pool) .. LastUsable(prefix, is_pool)
            alloc == Allocated(ipaddress_list)
        IN  /\ \A a \in usable :
                   Cardinality({ i \in DOMAIN av : a \in AddressesOf(v, av[i]) })
                       = IF a \in alloc THEN 0 ELSE 1
            /\ \A a \in usable \cap alloc : \E i \in DOMAIN output : output[i] \in Range(ipaddress_list)
                                                /\ output[i].address.ip = a
            /\ \A i \in DOMAIN av :
                   /\ av[i].count >= 1
                   /\ AddressesOf(v, av[i]) \subseteq usable \ alloc
            /\ SumCounts(av) = Cardinality(usable \ alloc)

\* C10 witness: a non-pool prefix with a duplicated address, the network
\* address allocated, and free space in the middle and at the end
C10_Witness ==
    /\ pc = "ipdone"
    /\ prefix.version = 4 /\ prefix.prefixlen < 31 /\ ~ is_pool
    /\ Len(ipaddress_list) = 3
    /\ ipaddress_list[1].address.ip = prefix.first
    /\ ipaddress_list[2].address.ip = ipaddress_list[3].address.ip
    /\ Len(AvailableEntries(output)) = 2

\* the address an entry of the output starts at
EntryStart(version, e) == IF IsAvailable(e) THEN StartOf(version, e) ELSE e.address.ip

\* the addresses an entry of the output describes
EntryRange(version, e) == IF IsAvailable(e) THEN AddressesOf(version, e) ELSE {e.address.ip}

\* two entries that are allocated records of one address
SameAddressRecords(e, f) ==
    /\ ~ IsAvailable(e)
    /\ ~ IsAvailable(f)
    /\ e.address.ip = f.address.ip

\* C11 as stated: the output is strictly ascending by start address and no
\* two entries describe overlapping ranges.
C11_StrictlyAscending ==
    pc = "ipdone" =>
        \A i, j \in DOMAIN output :
            i < j =>
                /\ EntryStart(prefix.version, output[i]) < EntryStart(prefix.version, output[j])
                /\ EntryRange(prefix.version, output[i])
                       \cap EntryRange(prefix.version, output[j]) = {}

\* C11 amended: the output is ascending by start address; two entries have
\* the same start, or overlap, only when both are allocated records of the
\* same address.
C11_Ascending ==
    pc = "ipdone" =>
        \A i, j \in DOMAIN output :
            i < j =>
                \/ SameAddressRecords(output[i], output[j])
                \/ /\ EntryStart(prefix.version, output[i])
                          < EntryStart(prefix.version, output[j])
                   /\ EntryRange(prefix.version, output[i])
                          \cap EntryRange(prefix.version, output[j]) = {}

\* C11 witness: two records of one address, with free space before and
\* after them
C11_Witness ==
    /\ pc = "ipdone"
    /\ Len(ipaddress_list) = 2
    /\ ipaddress_list[1].address.ip = ipaddress_list[2].address.ip
    /\ Len(output) = 4
    /\ IsAvailable(output[1])
    /\ IsAvailable(output[4])

\* the (count, start) pairs of the available ranges of an output
CountStartPairs(version, out) ==
    { <<e.count, StartOf(version, e)>> : e \in Range(AvailableEntries(out)) }

\* the (count, start) pairs the allocated addresses call for
ExpectedPairs(fu, lu, ips) ==
    LET n == Len(ips)
    IN  (IF ips[1].address.ip > fu THEN {<<ips[1].address.ip - fu, fu>>} ELSE {})
        \cup { <<ips[i + 1].address.ip - ips[i].address.ip - 1, ips[i].address.ip + 1>> :
                 i \in { k \in 1 .. (n - 1) : ips[k + 1].address.ip - ips[k].address.ip > 1 } }
        \cup (IF ips[n].address.ip < lu THEN {<<lu - ips[n].address.ip, ips[n].address.ip + 1>>}
              ELSE {})

\* C12: for a non-empty allocated list the available ranges are exactly: a
\* leading one iff the first allocated address is above first_usable, one
\* between consecutive addresses iff they differ by more than 1, a trailing
\* one iff the last allocated address is below last_usable, each with the
\* stated count and start.
C12_ExactEntries ==
    (pc = "ipdone" /\ ipaddress_list # <<>>) =>
        LET expected == ExpectedPairs(FirstUsable(prefix, is_pool), LastUsable(prefix, is_pool),
                                      ipaddress_list)
            av == AvailableEntries(output)
        IN  /\ CountStartPairs(prefix.version, output) = expected
            /\ Len(av) = Cardinality(expected)
            /\ \A i \in DOMAIN av : av[i].first_skipped[2] = prefix.prefixlen

\* C12 witness: a non-pool /29 with only its third address allocated gives
\* (1, .1), the record, (4, .3)
C12_Witness ==
    /\ pc = "ipdone"
    /\ prefix = [version |-> 4, first |-> V4Base, prefixlen |-> 29]
    /\ ~ is_pool
    /\ Len(ipaddress_list) = 1
    /\ ipaddress_list[1].address.ip = V4Base + 2
    /\ Len(output) = 3
    /\ output[1] = [count |-> 1, first_skipped |-> <<<<10, 0, 0, 1>>, 29>>]
    /\ output[2] = ipaddress_list[1]
    /\ output[3] = [count |-> 4, first_skipped |-> <<<<10, 0, 0, 3>>, 29>>]

\* the allocated records of an output, in order
RecordEntries(out) == SelectSeq(out, LAMBDA e : ~ IsAvailable(e))

\* C13: every input record is in the output unchanged, once, in the input
\* order, and records of one address are next to each other with no
\* available range between them.
C13_NoDeduplication ==
    pc = "ipdone" =>
        /\ RecordEntries(output) = ipaddress_list
        /\ \A i \in 1 .. (Len(ipaddress_list) - 1) :
               ipaddress_list[i].address.ip = ipaddress_list[i + 1].address.ip =>
                   \E k \in 1 .. (Len(output) - 1) :
                       /\ output[k] = ipaddress_list[i]
                       /\ output[k + 1] = ipaddress_list[i + 1]

\* C13 witness: two records of one address with different mask lengths,
\* followed by free space and a third record
C13_Witness ==
    /\ pc = "ipdone"
    /\ Len(ipaddress_list) = 3
    /\ ipaddress_list[1].address.ip = ipaddress_list[2].address.ip
    /\ ipaddress_list[1].address.prefixlen # ipaddress_list[2].address.prefixlen
    /\ ipaddress_list[3].address.ip > ipaddress_list[2].address.ip + 1
    /\ Len(AvailableEntries(output)) >= 1

\* C14: when every usable address is allocated the output is exactly the
\* allocated records, with no available range.
C14_FullyAllocated ==
    (pc = "ipdone"
        /\ (FirstUsable(prefix, is_pool) .. LastUsable(prefix, is_pool))
               \subseteq Allocated(ipaddress_list)) =>
        /\ output = ipaddress_list
        /\ AvailableEntries(output) = <<>>

\* C14 witness: a non-pool /30 with its two middle addresses allocated
C14_Witness ==
    /\ pc = "ipdone"
    /\ prefix.version = 4 /\ prefix.prefixlen = 30 /\ ~ is_pool
    /\ Len(ipaddress_list) = 2
    /\ ipaddress_list[1].address.ip = prefix.first + 1
    /\ ipaddress_list[2].address.ip = prefix.first + 2
    /\ Len(output) = 2
(* ------------------ properties: RIRListView.alter_queryset ------------- *)

\* active% + reserved% + deprecated% + available%, added from left to right
PercentageSum(p) ==
    FloatAdd(FloatAdd(FloatAdd(p.active, p.reserved), p.deprecated), p.available)

\* C15: the four percentages reported for a RIR add up to exactly 100,
\* whatever the sizes of the RIR are.
C15_PercentagesSumTo100 ==
    pc = "rirdone" => PercentageSum(rir.stats.percentages) = Float100

\* C16 as stated: a RIR of total size zero is reported with all four
\* percentages 0.
C16_AllZero ==
    (pc = "rirdone" /\ rir.stats.total = 0) =>
        /\ rir.stats.percentages.active = FloatZero
        /\ rir.stats.percentages.reserved = FloatZero
        /\ rir.stats.percentages.deprecated = FloatZero
        /\ rir.stats.percentages.available = FloatZero

\* C16 amended: a RIR of total size zero is reported with the active, reserved
\* and deprecated percentages 0 and the available percentage 100; nothing is
\* divided by the total.
C16_ZeroTotal ==
    (pc = "rirdone" /\ rir.stats.total = 0) =>
        /\ rir.stats.percentages.active = FloatZero
        /\ rir.stats.percentages.reserved = FloatZero
        /\ rir.stats.percentages.deprecated = FloatZero
        /\ rir.stats.percentages.available = Float100

\* a RIR without aggregates, although prefixes exist, has been reported
C16_Witness ==
    /\ pc = "rirdone"
    /\ aggregates = <<>>
    /\ Len(prefixes) = 2
    /\ prefixes[1].status = PREFIX_STATUS_ACTIVE
    /\ rir.stats.total = 0

\* the units (addresses, /64s for IPv6) covered by the prefixes of one status
\* that lie in the aggregate
CoveredUnits(agg, status) ==
    UNION { UnitSet(prefixes[i].prefix) :
              i \in { j \in DOMAIN prefixes :
                        /\ prefixes[j].status = status
                        /\ prefixes[j].prefix.version = agg.prefix.version
                        /\ UnitSet(prefixes[j].prefix) \subseteq UnitSet(agg.prefix) } }

RECURSIVE SumCovered(_, _)
SumCovered(aggs, status) ==
    IF aggs = <<>> THEN 0
    ELSE Cardinality(CoveredUnits(Head(aggs), status)) + SumCovered(Tail(aggs), status)

\* C17: the size reported for a status is, aggregate by aggregate, the number
\* of distinct units covered by the prefixes of that status: a unit covered by
\* several of them is counted once.
C17_CountedOnce ==
    pc = "rirdone" =>
        /\ rir.stats.active = SumCovered(aggregates, PREFIX_STATUS_ACTIVE)
        /\ rir.stats.reserved = SumCovered(aggregates, PREFIX_STATUS_RESERVED)
        /\ rir.stats.deprecated = SumCovered(aggregates, PREFIX_STATUS_DEPRECATED)

\* an aggregate with a reserved prefix and a second reserved prefix nested in
\* it has been reported
C17_Witness ==
    /\ pc = "rirdone"
    /\ Len(aggregates) = 1
    /\ Len(prefixes) = 2
    /\ prefixes[1].status = PREFIX_STATUS_RESERVED
    /\ prefixes[2].status = PREFIX_STATUS_RESERVED
    /\ prefixes[1].prefix = aggregates[1].prefix
    /\ prefixes[2].prefix # prefixes[1].prefix
    /\ UnitSet(prefixes[2].prefix) \subseteq UnitSet(prefixes[1].prefix)
    /\ rir.stats.reserved = UnitSize(aggregates[1].prefix)
\* 0 <= x <= 100 for a float x
InPercentRange(x) ==
    /\ ~ x.neg
    /\ ~ MagLess(Float100.mag, x.mag)

\* C21: each of the four percentages reported for a RIR lies between 0 and 100
\* inclusive, also when prefixes of different statuses overlap or nest.
C21_PercentagesInRange ==
    pc = "rirdone" =>
        /\ InPercentRange(rir.stats.percentages.active)
        /\ InPercentRange(rir.stats.percentages.reserved)
        /\ InPercentRange(rir.stats.percentages.deprecated)
        /\ InPercentRange(rir.stats.percentages.available)

\* C22: the sizes reported for a RIR add up: active + reserved + deprecated +
\* available = total, also when prefixes of different statuses cover the same
\* addresses.
C22_SizesAddUp ==
    pc = "rirdone" =>
        rir.stats.active + rir.stats.reserved + rir.stats.deprecated
            + rir.stats.available = rir.stats.total

(* -------------------------- properties: errors ------------------------- *)

\* the host bits of a supplied network
HostBitsOf(net) == net.first % Size(net)

\* C18: a call of add_available_prefixes with a child of the other family
\* than the parent ends with FamilyMismatch and returns nothing.
C18_FamilyMismatch ==
    (/\ pc = "returned"
     /\ \E i \in DOMAIN prefix_list : prefix_list[i].prefix.version # parent.version)
        => (raised = "FamilyMismatch" /\ result = <<>>)

\* C19: a call of either function with a network that has host bits set ends
\* with InvalidNetwork; the canonical network is not used in its place.
C19_InvalidNetwork ==
    (pc \in {"returned", "ipreturned"} /\ HostBitsOf(parent) # 0)
        => (raised = "InvalidNetwork" /\ result = <<>> /\ output = <<>>)
(* ------------------------ properties: arguments ------------------------ *)

\* a call of one of the three operations leaves what it was handed as it was
ArgumentsKept ==
    /\ (pc = "start" /\ pc' = "done") =>
           (parent' = parent /\ prefix_list' = prefix_list)
    /\ (pc = "ipstart" /\ pc' = "ipdone") =>
           (prefix' = prefix /\ ipaddress_list' = ipaddress_list /\ is_pool' = is_pool)
    /\ (pc = "rirstart" /\ pc' = "rirdone") =>
           (aggregates' = aggregates /\ prefixes' = prefixes /\ rir' = rir)

\* C20: no operation mutates its arguments: the parent network, the list of
\* records and the domain objects handed to add_available_prefixes,
\* add_available_ipaddresses and alter_queryset are the same after the call.
C20_NoMutation == [][ArgumentsKept]_vars
(* ----------------------- properties: IPAddressForm --------------------- *)

\* a save that gives the address of the form to a device as a primary IP
MadePrimary ==
    /\ pc = "cleaned"
    /\ pc' = "idle"
    /\ errors = {}
    /\ \E dev \in Devices : \E col \in {"primary_ip4", "primary_ip6"} :
           /\ db'.devices[dev][col] = cleaned_data.instance
           /\ db.devices[dev][col] # cleaned_data.instance

\* C23: clean() adds an error to primary_for_device whenever primary_for_device
\* is set and no interface is selected, and no save of the form makes an
\* address without an interface the primary IP of a device.
C23_PrimaryNeedsInterface ==
    /\ []((/\ pc = "cleaned"
           /\ cleaned_data.primary_for_device
           /\ cleaned_data.interface = None) => "primary_for_device" \in errors)
    /\ [][MadePrimary => db'.ipaddresses[cleaned_data.instance].interface # None]_vars

\* the form was submitted with primary_for_device set and no interface, and
\* was cleaned
C23_Witness ==
    /\ pc = "cleaned"
    /\ cleaned_data.primary_for_device
    /\ cleaned_data.interface = None
    /\ errors = {"primary_for_device"}

\* a save of a valid form that returned
SaveReturned ==
    /\ pc = "cleaned"
    /\ pc' = "idle"
    /\ errors = {}
    /\ raised' = NoException

PrimaryRecords(dev, version) ==
    { k \in DOMAIN cleaned_data :
        /\ cleaned_data[k].version = version
        /\ cleaned_data[k][PrimaryField(version) \o "_for"].pk = dev }

LastOf(S) == CHOOSE k \in S : \A j \in S : j <= k

\* C25: after an import with an IPv4 record and an IPv6 record marked primary
\* for the same device, in any order, the device has the IPv4 address as
\* primary_ip4 and the IPv6 address as primary_ip6: no record overwrites the
\* assignment of an earlier one.
C25_ImportKeepsPrimaries ==
    pc = "imported" =>
        \A dev \in Devices :
            (PrimaryRecords(dev, 4) # {} /\ PrimaryRecords(dev, 6) # {}) =>
                /\ db.devices[dev].primary_ip4 = LastOf(PrimaryRecords(dev, 4))
                /\ db.devices[dev].primary_ip6 = LastOf(PrimaryRecords(dev, 6))

\* an IPv6 record and then an IPv4 record, both primary for device 1 that had
\* a primary IPv4 address before, have been imported
C25_Witness ==
    /\ pc = "imported"
    /\ Len(cleaned_data) = 2
    /\ PrimaryRecords(1, 6) = {1}
    /\ PrimaryRecords(1, 4) = {2}
    /\ cleaned_data[2].primary_ip4_for.primary_ip4 = ExistingAddress
    /\ db.devices[1] = [primary_ip4 |-> 2, primary_ip6 |-> 1]
(* -------------------- properties: connection imports ------------------- *)

\* the ends of the connections of a list, as <<connection, end, interface>>
Endpoints(connection_list) ==
    { <<i, "a", connection_list[i].interface_a>> : i \in DOMAIN connection_list }
        \cup { <<i, "b", connection_list[i].interface_b>> : i \in DOMAIN connection_list }

\* C26: in the connection list of the interface connection import every
\* interface is an end at most once, counting both ends of every connection,
\* and no interface of the list is part of a connection of the database.
C26_InterfacesUsedOnce ==
    pc = "cleaned" =>
        /\ \A e, f \in Endpoints(cleaned_data) : e # f => e[3] # f[3]
        /\ \A e \in Endpoints(cleaned_data) : e[3] \notin Connected(db)

\* C27: a record accepted by validate_connection_status whose status is
\* 'planned' in any letter case gives a connection with
\* CONNECTION_STATUS_PLANNED, and 'connected' in any letter case gives
\* CONNECTION_STATUS_CONNECTED.
C27_StatusAnyCase ==
    pc = "cleaned" =>
        \A i \in DOMAIN cleaned_data :
            LET status == obj[cleaned_data[i].record].status
            IN  /\ Lower(status) = "planned" =>
                       cleaned_data[i].connection_status = CONNECTION_STATUS_PLANNED
                /\ Lower(status) = "connected" =>
                       cleaned_data[i].connection_status = CONNECTION_STATUS_CONNECTED

\* C28: in the connection list of the console (power) import no console
\* server port (power outlet) is given to two console ports (power ports), no
\* console port (power port) occurs twice, and no port of the list is
\* occupied or connected in the database.
C28_PortsUsedOnce ==
    pc = "cleaned" =>
        /\ \A i, j \in DOMAIN cleaned_data :
               i # j => /\ cleaned_data[i].cs_port # cleaned_data[j].cs_port
                        /\ cleaned_data[i].console_port # cleaned_data[j].console_port
        /\ \A i \in DOMAIN cleaned_data :
               /\ db.cs_port[cleaned_data[i].console_port] = None
               /\ \A p \in Ports : db.cs_port[p] # cleaned_data[i].cs_port

(* ------------------------- properties: VLAN import --------------------- *)

\* C30: VLANFromCSVForm.save persists the VLAN, with the group of its site
\* and group name and the status of its status name, whenever it is called
\* without commit=False; only commit=False leaves the VLAN unsaved.
C30_SavePersists ==
    pc = "vlansaved" =>
        /\ obj.vlan.status = VLANStatus(cleaned_data.status_name)
        /\ obj.vlan.group = IF cleaned_data.group_name # ""
                            THEN <<cleaned_data.site, cleaned_data.group_name>>
                            ELSE NoGroup
        /\ obj.vlan \in db.vlans <=> obj.commit # "False"

(* ------------------------- properties: detail views -------------------- *)

\* the networks of the available entries of a table
AvailableNetworks(table) == { p.prefix : p \in { q \in Range(table) : q.pk = None } }

\* C29: the child prefix table of the prefix view lists the unallocated
\* space of the prefix in every case; with no child prefixes it holds one
\* available entry equal to the prefix itself, as the aggregate view's table
\* does for an aggregate with no child prefixes.
C29_PrefixViewListsAvailable ==
    /\ pc = "aggregateview" /\ aggregate_child_prefixes(parent, prefix_list) = <<>>
           => result = <<NewPrefix(parent)>>
    /\ pc = "prefixview"
           => AvailableNetworks(result)
                  = AvailableNetworks(available_prefixes(parent,
                                         prefix_child_prefixes(parent, prefix_list)))
    /\ pc = "prefixview" /\ prefix_child_prefixes(parent, prefix_list) = <<>>
           => result = <<NewPrefix(parent)>>

====
